---- MODULE Spec2Model ----
(***************************************************************************)
(* Task queue, dispatch and status tracking of the StepFlow AI processor:  *)
(* RedisService (priority queues as sorted sets, status hashes) and        *)
(* QueueService (submit_task, the worker loop, _process_task).             *)
(***************************************************************************)
EXTENDS Integers, Sequences, FiniteSets

(* ------------------------------ bounds -------------------------------- *)
\* task ids 1..MaxTasks; the number is also the rank of the task's JSON
\* text in byte order (the uuid4 id is the first key of the payload)
MaxTasks == 2
\* settings.MAX_WORKERS as configured for the model (workers per task type)
MAX_WORKERS == 2
\* start_workers calls whose worker tasks exist at the same time
MaxStarts == 2

(* --------------------------- program constants ------------------------ *)
PROCESSING_TIMEOUT == 300
MinPriority == 1
MaxPriority == 10

PENDING == "pending"
PROCESSING == "processing"
COMPLETED == "completed"
FAILED == "failed"
ProcessingStatus == {PENDING, PROCESSING, COMPLETED, FAILED}

\* two of the five members of the TaskType enum
TaskType == {"ocr_extraction", "step_detection"}
\* the dispatch table built in QueueService.__init__: every TaskType has the
\* process method of its own service as handler
task_handlers ==
    [ty \in TaskType |->
        IF ty = "ocr_extraction" THEN "ocr_service.process"
        ELSE "step_detection.process"]
\* names a sorted set "queue:<name>" may have (Redis makes a key on first use)
QueueNames == TaskType \cup {"bogus"}

TTL == 3600
\* the asyncio.sleep of _worker after an empty dequeue, and after an error
IdleDelay == 1
RetryDelay == 5
\* the scenario of three submissions: their priorities in submission order
ScenarioPriorities == <<5, 9, 1>>

(* ------------------------------ inputs -------------------------------- *)
\* the task ids callers submit under
Tasks == 1..MaxTasks
\* every task id of the model: those of Tasks and one more for the scenarios
TaskIds == 1..(MaxTasks + 1)
\* task_type values a caller may send: the registered ones, an unknown one, none
TypeInputs == TaskType \cup {"bogus", ""}
\* priorities a caller may send: the ends of 1..10 and the first values outside
PriorityInputs == {MinPriority - 1, MinPriority, MaxPriority, MaxPriority + 1}
\* time the processor needs: under, at and past the deadline
Durations == {PROCESSING_TIMEOUT - 1, PROCESSING_TIMEOUT, PROCESSING_TIMEOUT + 100}
\* a Python value by what json.dumps makes of it: a dict of JSON values, a
\* dict that holds a tuple, a value json.dumps rejects
Values == {"dict", "tuple", "object"}
\* what a processor returns
ReturnValues == Values
\* str(e) of what a processor raises
Messages == {"boom", ""}

\* the worker tasks: the one with worker_id f"{task_type}_{i}", i in
\* range(MAX_WORKERS), that the g-th of the overlapping start_workers calls
\* creates
WorkerIds == TaskType \X (0..(MAX_WORKERS - 1)) \X (1..MaxStarts)
\* the worker_id string of a worker task
WorkerName(w) == <<w[1], w[2]>>
NoWorker == <<"", -1>>

\* task_data: the keys the services read, and `body` for the other values
NoTask == [task_id |-> 0, task_type |-> "", priority |-> 0, body |-> ""]
\* the `result` argument of set_task_status: None, result_data, or {"error": ...}
NoResult == [kind |-> "none", result |-> "", processing_time |-> 0,
             worker_id |-> NoWorker, error |-> ""]
NoRecord == [status |-> "none", result |-> NoResult]
NoWrite == [status |-> "none", result |-> NoResult]
\* n: how often the processor was called for the task; value: what it returned
NoInvocation == [kind |-> "none", needed |-> 0, elapsed |-> 0, value |-> "",
                 n |-> 0, handler |-> ""]
\* a call of a RedisService queue method: its queue, the task_data passed or
\* returned, whether it returned True or a payload, whether it found the
\* queue empty; for a dequeue_task also the call made just before it
NoCall == [op |-> "none", queue |-> "", task_data |-> NoTask, ok |-> FALSE,
           empty |-> FALSE, prevOp |-> "none", prevQueue |-> "",
           prevData |-> NoTask, prevEmpty |-> FALSE]

\* a direct call of a RedisService method: the method, whether a backend
\* command failed during it, whether it raised to its caller, what it
\* returned; flip tells one call from the next
NoStoreCall == [op |-> "none", failed |-> FALSE, raised |-> FALSE,
               ret |-> "", flip |-> FALSE]

VARIABLES
    queue,      \* Redis sorted set "queue:<type>": set of [member, score]
    record,     \* Redis hash "task:<id>": [status, result], NoRecord when absent
    redisUp,    \* whether Redis commands succeed
    running,    \* QueueService.running
    workers,    \* QueueService.workers (the handles)
    pc,         \* position of each worker coroutine
    cur,        \* task_data held by each worker
    pend,       \* the terminal status write a worker is about to issue
    sub,        \* per task id: position or outcome of its submit_task call
    subData,    \* per task id: the task_data submit_task was called with
    nextSeq,    \* history: number of ZADDs so far
    seqOf,      \* history: for a queued task, the sequence number of its ZADD
    returned,   \* history: per task id, how often dequeue_task returned it
    invoked,    \* history: per task, how the processor invocation went
    finished,   \* history: tasks whose _process_task call has returned
    ttl,        \* seconds the key "task:<id>" has left to live, 0 when absent
    sinceWrite, \* history: seconds since the last status write landed, -1 if none
    maxWorkers, \* settings.MAX_WORKERS as configured
    stopPc,     \* position of the stop_workers call: "idle" or "gather"
    gathered,   \* the worker tasks the gather of stop_workers is awaiting
    stopParity, \* history: number of stop_workers calls so far, modulo 2
    lastCall,   \* history: the last direct call of a RedisService queue method
    backoff,    \* history: per worker, the seconds it waits after its last
                \* failed Redis call before it dequeues again, -1 if none failed
    nap,        \* per worker: whole seconds its asyncio.sleep has left
    waited,     \* history: per task, the seconds it has been in its queue
    idleAge,    \* history: per task, the seconds it has been in its queue
                \* while a worker of its type was idle
    leftRunning,   \* per task: what of a processor call that wait_for gave up
                   \* is still running ("coroutine", "thread")
    cancelReplies, \* history: the task ids DELETE /tasks/{task_id} has
                   \* answered with status "cancelled"
    storeCall      \* history: the last direct call of a RedisService method
                   \* on a backend that may fail during the call

vars == <<queue, record, redisUp, running, workers, pc, cur, pend, sub, subData,
          nextSeq, seqOf, returned, invoked, finished, ttl, sinceWrite,
          maxWorkers, stopPc, gathered, stopParity, lastCall, backoff,
          nap, waited, idleAge, leftRunning, cancelReplies, storeCall>>

\* the variables of the status records
statusVars == <<record, ttl, sinceWrite>>
\* the variables of the pool's configuration and of stop_workers
lifeVars == <<maxWorkers, stopPc, gathered, stopParity>>
\* the variables that keep time
timeVars == <<nap, waited, idleAge>>

(* --------------------------- RedisService ------------------------------ *)
\* variant: the score is the priority itself
ScoreNotNegated(priority) == priority

\* enqueue_task: score = -priority
Score(priority) == 0 - priority

\* byte order of two members (the JSON texts json.dumps gives): the keys are
\* written in insertion order, task_id first
MemberLess(a, b) ==
    \/ a.task_id < b.task_id
    \/ a.task_id = b.task_id /\ a.task_type # b.task_type
        /\ a.task_type = "ocr_extraction"
    \/ a.task_id = b.task_id /\ a.task_type = b.task_type
        /\ a.priority < b.priority

\* ZADD key {member: score}: a sorted set holds a member once; adding it again
\* replaces its score
ZAdd(zset, member, score) ==
    {e \in zset : e.member # member} \cup {[member |-> member, score |-> score]}

\* the rank Redis orders a sorted set by: score, then the member's bytes
RankBefore(e, f) ==
    \/ e.score < f.score
    \/ e.score = f.score /\ MemberLess(e.member, f.member)

\* ZPOPMIN key: the entry of lowest rank
ZMin(zset) == CHOOSE e \in zset : \A f \in zset \ {e} : RankBefore(e, f)

\* json.dumps(value) raises TypeError
JsonRejects(value) == value = "object"

\* json.loads(json.dumps(value)): a tuple is written as an array and read
\* back as a list
JsonRoundTrip(value) == IF value = "tuple" THEN "dict" ELSE value

\* whether enqueue_task returns True
EnqueueOk(task_data) == redisUp /\ ~JsonRejects(task_data.body)

\* variant: the priority is written into the payload before it is encoded
EnqueueTaskStampsPriority(q, task_data, priority) ==
    IF EnqueueOk(task_data)
    THEN [queue EXCEPT ![q] =
            ZAdd(queue[q], [task_data EXCEPT !.body = JsonRoundTrip(@),
                                             !.priority = priority],
                 Score(priority))]
    ELSE queue

\* enqueue_task(queue_name, task_data, priority): the queues after the call;
\* the member is the JSON text of task_data, held here as the value it reads
\* back as
EnqueueTask(q, task_data, priority) ==
    IF EnqueueOk(task_data)
    THEN [queue EXCEPT ![q] =
            ZAdd(queue[q], [task_data EXCEPT !.body = JsonRoundTrip(@)],
                 Score(priority))]
    ELSE queue

\* dequeue_task(queue_name): json.loads of the member, NoTask for None
DequeueTask(q) ==
    IF redisUp /\ queue[q] # {} THEN ZMin(queue[q]).member ELSE NoTask

\* variant: the entry is read (ZRANGE) and left in the sorted set
DequeueRestPeek(q) == queue

\* the queues after dequeue_task(queue_name)
DequeueRest(q) ==
    IF redisUp /\ queue[q] # {}
    THEN [queue EXCEPT ![q] = queue[q] \ {ZMin(queue[q])}]
    ELSE queue

\* get_queue_size
GetQueueSize(q) == IF redisUp THEN Cardinality(queue[q]) ELSE 0

\* json.dumps(result) raises TypeError for a value that is not JSON-safe
Serializable(result) == ~(result.kind = "result_data" /\ JsonRejects(result.result))

\* whether the HSET and the EXPIRE of set_task_status are carried out
StatusWriteLands(result) ==
    redisUp /\ (result.kind = "none" \/ Serializable(result))

\* set_task_status(task_id, status, result): the hash after the call. HSET
\* writes the fields given and keeps the others; the result is stored as its
\* JSON text; any exception is swallowed
SetTaskStatus(task_id, status, result) ==
    IF ~redisUp THEN record
    ELSE IF result.kind # "none" /\ ~Serializable(result) THEN record
    ELSE [record EXCEPT ![task_id] =
            [status |-> status,
             result |-> IF result.kind # "none"
                        THEN [result EXCEPT !.result = JsonRoundTrip(@)]
                        ELSE @.result]]

\* variant: EXPIRE key 3600 NX, which sets a TTL only on a key that has none
ExpireOnlyNewKey(task_id, status, result) ==
    IF StatusWriteLands(result) /\ ttl[task_id] = 0
    THEN [ttl EXCEPT ![task_id] = TTL]
    ELSE ttl

\* set_task_status: the TTLs after the call, EXPIRE key 3600 follows the HSET
Expire(task_id, status, result) ==
    IF StatusWriteLands(result) THEN [ttl EXCEPT ![task_id] = TTL] ELSE ttl

\* set_task_status as a step: the hash, its TTL, and the time since the write
WriteStatus(task_id, status, result) ==
    /\ record' = SetTaskStatus(task_id, status, result)
    /\ ttl' = Expire(task_id, status, result)
    /\ sinceWrite' = IF StatusWriteLands(result)
                     THEN [sinceWrite EXCEPT ![task_id] = 0]
                     ELSE sinceWrite

\* keys of the dict get_task_status returns ({} -> None)
RecordFields(rec) ==
    IF rec.status = "none" THEN {}
    ELSE {"status", "updated_at"}
         \cup (IF rec.result.kind # "none" THEN {"result"} ELSE {})

\* variant: a hash that is not there reads as a record of a pending task
GetTaskStatusDefault(task_id) ==
    IF redisUp /\ record[task_id] # NoRecord THEN record[task_id]
    ELSE [status |-> PENDING, result |-> NoResult]

\* get_task_status(task_id): NoRecord for None
GetTaskStatus(task_id) == IF redisUp THEN record[task_id] ELSE NoRecord

(* --------------------------- QueueService ------------------------------ *)
\* variant: every worker polls the queue of the first task type
QueueOfFirstType(w) == "ocr_extraction"

\* the queue_name a worker task is created with: its task type's value
QueueOf(w) == w[1]

\* positions of a worker coroutine that has not ended
Live == {"poll", "setProcessing", "handler", "setTerminal"}

\* a worker task that does not exist: never created, or ended and its handle
\* dropped from self.workers
Free(w) == pc[w] \notin Live /\ w \notin workers

\* the worker tasks a start_workers call creates now:
\* range(settings.MAX_WORKERS) new tasks per type
Spawned ==
    {w \in WorkerIds :
        /\ w[2] < maxWorkers
        /\ Free(w)
        /\ \A g \in 1..(w[3] - 1) : ~Free(<<w[1], w[2], g>>)}

\* stop_workers has called cancel() on the worker's task
Cancelled(w) == w \in gathered

TypeInit ==
    /\ queue = [q \in QueueNames |-> {}]
    /\ record = [t \in TaskIds |-> NoRecord]
    /\ redisUp = TRUE
    /\ running = FALSE
    /\ workers = {}
    /\ pc = [w \in WorkerIds |-> "unspawned"]
    /\ cur = [w \in WorkerIds |-> NoTask]
    /\ pend = [w \in WorkerIds |-> NoWrite]
    /\ sub = [t \in TaskIds |-> "none"]
    /\ subData = [t \in TaskIds |-> NoTask]
    /\ nextSeq = 0
    /\ seqOf = [t \in TaskIds |-> 0]
    /\ returned = [t \in TaskIds |-> 0]
    /\ invoked = [t \in TaskIds |-> NoInvocation]
    /\ finished = {}
    /\ ttl = [t \in TaskIds |-> 0]
    /\ sinceWrite = [t \in TaskIds |-> -1]
    /\ stopPc = "idle"
    /\ gathered = {}
    /\ stopParity = 0
    /\ lastCall = NoCall
    /\ backoff = [w \in WorkerIds |-> -1]
    /\ nap = [w \in WorkerIds |-> 0]
    /\ waited = [t \in TaskIds |-> 0]
    /\ idleAge = [t \in TaskIds |-> 0]
    /\ leftRunning = [t \in TaskIds |-> {}]
    /\ cancelReplies = {}
    /\ storeCall = NoStoreCall

\* the state after QueueService(redis_service) on an empty Redis
Init == TypeInit /\ maxWorkers = MAX_WORKERS

\* variant: one worker per task type
StartWorkersOnePerType ==
    /\ Cardinality(Spawned) = Cardinality(TaskType) * maxWorkers
    /\ running' = TRUE
    /\ workers' = workers \cup {w \in Spawned : w[2] = 0}
    /\ pc' = [w \in WorkerIds |->
                IF w \in Spawned /\ w[2] = 0 THEN "poll" ELSE pc[w]]
    /\ UNCHANGED <<queue, redisUp, cur, pend, sub, subData, nextSeq,
                   seqOf, returned, invoked, finished, statusVars, lifeVars,
                   lastCall, backoff, timeVars, leftRunning, cancelReplies,
                   storeCall>>

\* start_workers: MAX_WORKERS workers per task type, each on its type's queue
StartWorkers ==
    /\ Cardinality(Spawned) = Cardinality(TaskType) * maxWorkers
    /\ running' = TRUE
    /\ workers' = workers \cup Spawned
    /\ pc' = [w \in WorkerIds |-> IF w \in Spawned THEN "poll" ELSE pc[w]]
    /\ UNCHANGED <<queue, redisUp, cur, pend, sub, subData, nextSeq,
                   seqOf, returned, invoked, finished, statusVars, lifeVars,
                   lastCall, backoff, timeVars, leftRunning, cancelReplies,
                   storeCall>>

\* variant: the task type is not checked against the TaskType enum
SubmitValidAnyType(task_type, task_id, priority) ==
    /\ task_type # ""
    /\ task_id # 0

\* submit_task validates task_type and task_id only
SubmitValid(task_type, task_id, priority) ==
    /\ task_type # ""
    /\ task_id # 0
    /\ task_type \in TaskType

\* variant: submit_task enqueues first; its PENDING write is still to come
SubmitTaskEnqueueFirst(t, task_type, priority) ==
    /\ sub[t] = "none"
    /\ subData' = [subData EXCEPT ![t] =
           [task_id |-> t, task_type |-> task_type, priority |-> priority,
            body |-> "dict"]]
    /\ IF SubmitValid(task_type, t, priority)
       THEN /\ queue' = EnqueueTask(task_type, subData'[t], priority)
            /\ sub' = [sub EXCEPT ![t] = "write"]
       ELSE /\ sub' = [sub EXCEPT ![t] = "ValueError"]
            /\ UNCHANGED queue
    /\ UNCHANGED <<redisUp, running, workers, pc, cur, pend, nextSeq,
                   seqOf, returned, invoked, finished, statusVars, lifeVars,
                   lastCall, backoff, timeVars, leftRunning, cancelReplies,
                   storeCall>>

\* submit_task up to its first Redis call: validation, then the PENDING write.
\* The task_data of a route is built from a JSON request body
SubmitTask(t, task_type, priority) ==
    /\ sub[t] = "none"
    /\ subData' = [subData EXCEPT ![t] =
           [task_id |-> t, task_type |-> task_type, priority |-> priority,
            body |-> "dict"]]
    /\ IF SubmitValid(task_type, t, priority)
       THEN /\ WriteStatus(t, PENDING, NoResult)
            /\ sub' = [sub EXCEPT ![t] = "enqueue"]
       ELSE /\ sub' = [sub EXCEPT ![t] = "ValueError"]
            /\ UNCHANGED statusVars
    /\ UNCHANGED <<queue, redisUp, running, workers, pc, cur, pend, nextSeq,
                   seqOf, returned, invoked, finished, lifeVars, lastCall,
                   backoff, timeVars, leftRunning, cancelReplies, storeCall>>

\* submit_task from the enqueue on: returns task_id, or raises RuntimeError
SubmitEnqueue(t) ==
    /\ sub[t] = "enqueue"
    /\ queue' = EnqueueTask(subData[t].task_type, subData[t], subData[t].priority)
    /\ IF EnqueueOk(subData[t])
       THEN /\ sub' = [sub EXCEPT ![t] = "done"]
            /\ nextSeq' = nextSeq + 1
            /\ seqOf' = [seqOf EXCEPT ![t] = nextSeq + 1]
       ELSE /\ sub' = [sub EXCEPT ![t] = "RuntimeError"]
            /\ UNCHANGED <<nextSeq, seqOf>>
    /\ UNCHANGED <<redisUp, running, workers, pc, cur, pend, subData,
                   returned, invoked, finished, statusVars, lifeVars, lastCall,
                   backoff, timeVars, leftRunning, cancelReplies, storeCall>>

\* variant: what a processor raises is not caught in _process_task nor in
\* _worker
EscapesFromHandler(where) == where = "handler"

\* whether an exception raised at `where` leaves the worker coroutine:
\* dequeue_task and set_task_status catch their own, _process_task catches
\* those of the handler lookup and of the processor, _worker catches the rest
Escapes(where) ==
    where \notin {"dequeue_task", "set_task_status", "lookup", "handler"}

\* the position of a worker after a step at `where` that leads to `normal`
\* unless it failed with an exception that nothing catches
PcAfter(where, failed, normal) ==
    IF failed /\ Escapes(where) THEN "crashed" ELSE normal

\* the seconds a worker sleeps between a failed call and its next dequeue:
\* sleep(5) for what arrives in the except Exception of _worker; a failed
\* dequeue_task has returned None, which leads to the sleep(1) of an empty
\* queue; a failed set_task_status has returned normally, with no sleep
WaitAfter(where) ==
    IF where \notin {"dequeue_task", "set_task_status", "lookup", "handler"}
    THEN RetryDelay
    ELSE IF where = "dequeue_task" THEN IdleDelay ELSE 0

\* _worker: one turn of the loop up to the next Redis call: the dequeue, and
\* on None the asyncio.sleep(1) that leads back to the top of the loop (how
\* long the sleep takes is kept by TimedDequeue)
WorkerDequeue(w) ==
    /\ pc[w] = "poll"
    /\ running
    /\ ~Cancelled(w)
    /\ LET task_data == DequeueTask(QueueOf(w)) IN
       /\ queue' = DequeueRest(QueueOf(w))
       /\ IF task_data = NoTask
          THEN /\ pc' = [pc EXCEPT ![w] = PcAfter("dequeue_task", ~redisUp, "poll")]
               /\ UNCHANGED <<cur, returned, seqOf>>
          ELSE /\ pc' = [pc EXCEPT ![w] = "setProcessing"]
               /\ cur' = [cur EXCEPT ![w] = task_data]
               /\ returned' = [returned EXCEPT ![task_data.task_id] = @ + 1]
               /\ seqOf' = [seqOf EXCEPT ![task_data.task_id] = 0]
    /\ backoff' = [backoff EXCEPT ![w] =
           IF redisUp THEN -1 ELSE WaitAfter("dequeue_task")]
    /\ UNCHANGED <<redisUp, running, workers, pend, sub, subData,
                   nextSeq, invoked, finished, statusVars, lifeVars, lastCall,
                   leftRunning, cancelReplies, storeCall>>

\* {"error": str(e)}
ErrorData(msg) == [NoResult EXCEPT !.kind = "error_data", !.error = msg]

\* result_data of a processor that returned
ResultData(result, processing_time, worker_id) ==
    [kind |-> "result_data", result |-> result,
     processing_time |-> processing_time, worker_id |-> worker_id, error |-> ""]

\* self.task_handlers.get(key): the handler, "" for None
HandlerFor(task_type) ==
    IF task_type \in DOMAIN task_handlers THEN task_handlers[task_type] ELSE ""

\* variant: the handler lookup finds a handler for every task type
HasHandlerAlways(task_type) == TRUE

\* self.task_handlers.get(TaskType(task_type)) finds a handler
HasHandler(task_type) == task_type \in TaskType /\ task_type \in DOMAIN task_handlers

\* variant: the PROCESSING write is left out
WorkerSkipProcessing(w) ==
    /\ pc[w] = "setProcessing"
    /\ ~Cancelled(w)
    /\ pc' = [pc EXCEPT ![w] = "handler"]
    /\ invoked' = [invoked EXCEPT ![cur[w].task_id].n = @ + 1]
    /\ UNCHANGED <<queue, redisUp, running, workers, cur, pend, sub,
                   subData, nextSeq, seqOf, returned, finished, statusVars,
                   lifeVars, lastCall, backoff, timeVars,
                   leftRunning, cancelReplies, storeCall>>

\* _process_task: the PROCESSING write, then the handler lookup and the call
\* of the processor
WorkerSetProcessing(w) ==
    /\ pc[w] = "setProcessing"
    /\ ~Cancelled(w)
    /\ WriteStatus(cur[w].task_id, PROCESSING, NoResult)
    /\ IF HasHandler(cur[w].task_type)
       THEN /\ pc' = [pc EXCEPT ![w] =
                   PcAfter("set_task_status", ~redisUp, "handler")]
            /\ invoked' = [invoked EXCEPT ![cur[w].task_id] =
                   IF pc'[w] = "handler"
                   THEN [@ EXCEPT !.n = @ + 1,
                                  !.handler = HandlerFor(cur[w].task_type)]
                   ELSE @]
            /\ UNCHANGED pend
       ELSE /\ pc' = [pc EXCEPT ![w] = PcAfter("lookup", TRUE, "setTerminal")]
            /\ pend' = [pend EXCEPT ![w] =
                   [status |-> FAILED, result |-> ErrorData("no handler")]]
            /\ UNCHANGED invoked
    /\ backoff' = [backoff EXCEPT ![w] =
           IF redisUp THEN @ ELSE WaitAfter("set_task_status")]
    /\ UNCHANGED <<queue, redisUp, running, workers, cur, sub, subData, nextSeq,
                   seqOf, returned, finished, lifeVars, lastCall, timeVars,
                   leftRunning, cancelReplies, storeCall>>

\* variant: the deadline fires one time unit early
WaitForEarly(needed, kind, timeout) ==
    IF needed >= timeout - 1
    THEN {[kind |-> "timeout", needed |-> needed, elapsed |-> timeout - 1]}
    ELSE {[kind |-> kind, needed |-> needed, elapsed |-> needed]}

\* asyncio.wait_for(handler(task_data), timeout): the outcomes for a processor
\* that needs `needed` time units and then returns or raises (`kind`)
WaitFor(needed, kind, timeout) ==
    (IF needed <= timeout THEN {[kind |-> kind, needed |-> needed, elapsed |-> needed]}
     ELSE {})
    \cup
    (IF needed >= timeout
     THEN {[kind |-> "timeout", needed |-> needed, elapsed |-> timeout]}
     ELSE {})

\* variant: no `except asyncio.TimeoutError` clause, so a timeout is handled
\* by `except Exception` with str(e) of a TimeoutError, the empty string
TerminalWriteNoTimeoutClause(w, outcome, value, msg) ==
    IF outcome.kind = "return"
    THEN [status |-> COMPLETED, result |-> ResultData(value, outcome.elapsed, WorkerName(w))]
    ELSE IF outcome.kind = "timeout"
    THEN [status |-> FAILED, result |-> ErrorData("")]
    ELSE [status |-> FAILED, result |-> ErrorData(msg)]

\* _process_task: the status write that follows an outcome of the processor
TerminalWrite(w, outcome, value, msg) ==
    IF outcome.kind = "return"
    THEN [status |-> COMPLETED, result |-> ResultData(value, outcome.elapsed, WorkerName(w))]
    ELSE IF outcome.kind = "timeout"
    THEN [status |-> FAILED, result |-> ErrorData("Task timed out")]
    ELSE [status |-> FAILED, result |-> ErrorData(msg)]

\* _process_task: the processor call under the deadline comes to an end
HandlerEnd(w, needed, kind, value, msg) ==
    /\ pc[w] = "handler"
    /\ ~Cancelled(w)
    /\ \E outcome \in WaitFor(needed, kind, PROCESSING_TIMEOUT) :
          /\ pend' = [pend EXCEPT ![w] = TerminalWrite(w, outcome, value, msg)]
          /\ invoked' = [invoked EXCEPT ![cur[w].task_id] =
                 [kind |-> outcome.kind, needed |-> outcome.needed,
                  elapsed |-> outcome.elapsed,
                  value |-> IF outcome.kind = "return" THEN value ELSE "",
                  n |-> @.n, handler |-> @.handler]]
          /\ pc' = [pc EXCEPT ![w] =
                 PcAfter("handler", outcome.kind # "return", "setTerminal")]
    /\ UNCHANGED <<queue, redisUp, running, workers, cur, sub, subData,
                   nextSeq, seqOf, returned, finished, statusVars, lifeVars,
                   lastCall, backoff, timeVars, cancelReplies, storeCall>>

\* variant: a task that ended FAILED is put back into its queue
WorkerSetTerminalRetry(w) ==
    /\ pc[w] = "setTerminal"
    /\ ~Cancelled(w)
    /\ WriteStatus(cur[w].task_id, pend[w].status, pend[w].result)
    /\ queue' = IF pend[w].status = FAILED
                THEN EnqueueTask(QueueOf(w), cur[w], cur[w].priority)
                ELSE queue
    /\ finished' = finished \cup {cur[w].task_id}
    /\ pc' = [pc EXCEPT ![w] = "poll"]
    /\ cur' = [cur EXCEPT ![w] = NoTask]
    /\ pend' = [pend EXCEPT ![w] = NoWrite]
    /\ UNCHANGED <<redisUp, running, workers, sub, subData, nextSeq,
                   seqOf, returned, invoked, lifeVars, lastCall, backoff,
                   timeVars, leftRunning, cancelReplies, storeCall>>

\* _process_task: the COMPLETED or FAILED write, and the return to the loop
WorkerSetTerminal(w) ==
    /\ pc[w] = "setTerminal"
    /\ ~Cancelled(w)
    /\ WriteStatus(cur[w].task_id, pend[w].status, pend[w].result)
    /\ pc' = [pc EXCEPT ![w] =
           PcAfter("set_task_status", ~StatusWriteLands(pend[w].result), "poll")]
    /\ finished' = IF pc'[w] = "poll" THEN finished \cup {cur[w].task_id}
                   ELSE finished
    /\ cur' = [cur EXCEPT ![w] = NoTask]
    /\ pend' = [pend EXCEPT ![w] = NoWrite]
    /\ backoff' = [backoff EXCEPT ![w] =
           IF redisUp THEN @ ELSE WaitAfter("set_task_status")]
    /\ UNCHANGED <<queue, redisUp, running, workers, sub, subData, nextSeq,
                   seqOf, returned, invoked, lifeVars, lastCall, timeVars,
                   leftRunning, cancelReplies, storeCall>>

\* variant: stop_workers clears the handles without awaiting the workers
StopEndNoGather ==
    /\ stopPc = "gather"
    /\ workers' = {}
    /\ gathered' = {}
    /\ stopPc' = "idle"
    /\ UNCHANGED <<queue, redisUp, running, pc, cur, pend, sub, subData, nextSeq,
                   seqOf, returned, invoked, finished, statusVars, maxWorkers,
                   stopParity, lastCall, backoff, timeVars,
                   leftRunning, cancelReplies, storeCall>>

\* variant: stop_workers toggles `running`
StopBeginToggle ==
    /\ stopPc = "idle"
    /\ running' = ~running
    /\ stopParity' = 1 - stopParity
    /\ stopPc' = IF workers = {} THEN "idle" ELSE "gather"
    /\ gathered' = workers
    /\ UNCHANGED <<queue, redisUp, workers, pc, cur, pend, sub, subData,
                   nextSeq, seqOf, returned, invoked, finished, statusVars,
                   maxWorkers, lastCall, backoff, timeVars,
                   leftRunning, cancelReplies, storeCall>>

\* stop_workers up to its await: running = False and cancel() on every worker
\* task; with no worker there is nothing to await, workers.clear() follows and
\* the call returns
StopBegin ==
    /\ stopPc = "idle"
    /\ running' = FALSE
    /\ stopParity' = 1 - stopParity
    /\ stopPc' = IF workers = {} THEN "idle" ELSE "gather"
    /\ gathered' = workers
    /\ UNCHANGED <<queue, redisUp, workers, pc, cur, pend, sub, subData,
                   nextSeq, seqOf, returned, invoked, finished, statusVars,
                   maxWorkers, lastCall, backoff, timeVars,
                   leftRunning, cancelReplies, storeCall>>

\* variant: a worker that is cancelled while it awaits the processor does not
\* leave its loop
WorkerCancelledNotInHandler(w, lands) ==
    /\ Cancelled(w)
    /\ pc[w] \in Live \ {"handler"}
    /\ pc' = [pc EXCEPT ![w] = "exited"]
    /\ cur' = [cur EXCEPT ![w] = NoTask]
    /\ pend' = [pend EXCEPT ![w] = NoWrite]
    /\ IF lands /\ pc[w] = "poll"
       THEN /\ queue' = DequeueRest(QueueOf(w))
            /\ seqOf' = [t \in TaskIds |->
                   IF t = DequeueTask(QueueOf(w)).task_id THEN 0 ELSE seqOf[t]]
       ELSE UNCHANGED <<queue, seqOf>>
    /\ IF lands /\ pc[w] = "setProcessing"
       THEN WriteStatus(cur[w].task_id, PROCESSING, NoResult)
       ELSE IF lands /\ pc[w] = "setTerminal"
       THEN WriteStatus(cur[w].task_id, pend[w].status, pend[w].result)
       ELSE UNCHANGED statusVars
    /\ UNCHANGED <<redisUp, running, workers, sub, subData, nextSeq, returned,
                   invoked, finished, lifeVars, lastCall, backoff, timeVars,
                   leftRunning, cancelReplies, storeCall>>

\* a cancelled worker is resumed with CancelledError at the await it is
\* suspended in and leaves its loop (`except asyncio.CancelledError: break`;
\* _process_task does not catch it).  The Redis command it was awaiting has
\* been carried out (`lands`) or has not
WorkerCancelled(w, lands) ==
    /\ Cancelled(w)
    /\ pc[w] \in Live
    /\ pc' = [pc EXCEPT ![w] = "exited"]
    /\ cur' = [cur EXCEPT ![w] = NoTask]
    /\ pend' = [pend EXCEPT ![w] = NoWrite]
    /\ IF lands /\ pc[w] = "poll"
       THEN /\ queue' = DequeueRest(QueueOf(w))
            /\ seqOf' = [t \in TaskIds |->
                   IF t = DequeueTask(QueueOf(w)).task_id THEN 0 ELSE seqOf[t]]
       ELSE UNCHANGED <<queue, seqOf>>
    /\ IF lands /\ pc[w] = "setProcessing"
       THEN WriteStatus(cur[w].task_id, PROCESSING, NoResult)
       ELSE IF lands /\ pc[w] = "setTerminal"
       THEN WriteStatus(cur[w].task_id, pend[w].status, pend[w].result)
       ELSE UNCHANGED statusVars
    /\ UNCHANGED <<redisUp, running, workers, sub, subData, nextSeq, returned,
                   invoked, finished, lifeVars, lastCall, backoff, timeVars,
                   leftRunning, cancelReplies, storeCall>>

\* stop_workers from its await on: gather returns once every worker task is
\* done, then workers.clear()
StopEnd ==
    /\ stopPc = "gather"
    /\ \A w \in gathered : pc[w] \notin Live
    /\ workers' = {}
    /\ gathered' = {}
    /\ stopPc' = "idle"
    /\ UNCHANGED <<queue, redisUp, running, pc, cur, pend, sub, subData, nextSeq,
                   seqOf, returned, invoked, finished, statusVars, maxWorkers,
                   stopParity, lastCall, backoff, timeVars,
                   leftRunning, cancelReplies, storeCall>>

\* variant: every handle in self.workers counts as active, done or not
GetQueueStatsNoDoneFilter ==
    [pending_tasks |-> [ty \in TaskType |-> GetQueueSize(ty)],
     workers |-> [ty \in TaskType |-> maxWorkers],
     total_workers |-> Cardinality(workers),
     active_workers |-> Cardinality(workers)]

\* get_queue_stats: per task type the size of its queue and the configured
\* MAX_WORKERS; the number of handles in self.workers, and of those whose task
\* is not done()
GetQueueStats ==
    [pending_tasks |-> [ty \in TaskType |-> GetQueueSize(ty)],
     workers |-> [ty \in TaskType |-> maxWorkers],
     total_workers |-> Cardinality(workers),
     active_workers |-> Cardinality({w \in workers : pc[w] \in Live})]

\* get_task_result(task_id) hands back what get_task_status returns
GetTaskResult(task_id) == GetTaskStatus(task_id)

\* the steps of the service for callers that send task types `types` and
\* priorities `prios`, and processors that need `durs` time units and return
\* one of `vals` or raise with one of the messages `msgs`.  As main.py runs it:
\* start_workers on a stopped service, task ids are fresh uuid4 values
\* (routes.py)
NextWith(types, prios, durs, vals, msgs) ==
    \/ (~running /\ workers = {} /\ stopPc = "idle" /\ StartWorkers)
    \/ \E t \in Tasks, ty \in types, p \in prios : SubmitTask(t, ty, p)
    \/ \E t \in Tasks : SubmitEnqueue(t)
    \/ \E w \in WorkerIds : WorkerDequeue(w) /\ UNCHANGED timeVars
    \/ \E w \in WorkerIds : WorkerSetProcessing(w)
    \/ \E w \in WorkerIds, d \in durs, v \in vals : HandlerEnd(w, d, "return", v, "")
          /\ UNCHANGED leftRunning
    \/ \E w \in WorkerIds, d \in durs, m \in msgs : HandlerEnd(w, d, "raise", "", m)
          /\ UNCHANGED leftRunning
    \/ \E w \in WorkerIds : WorkerSetTerminal(w)

\* every processor outcome, for tasks of one registered type and one priority
\* and for rejected submissions
Next == NextWith({"ocr_extraction", "bogus", ""}, {MinPriority},
                 Durations, ReturnValues, Messages)

Spec == Init /\ [][Next]_vars

\* priorities in and out of 1..10 on one queue, for processors that end in time
NextOrder == NextWith({"ocr_extraction"}, {MinPriority, MaxPriority, MaxPriority + 1},
                      {PROCESSING_TIMEOUT - 1}, {"dict"}, {"boom"})

SpecOrder == Init /\ [][NextOrder]_vars

\* Redis stops answering: every command raises until it is back
RedisFails ==
    /\ redisUp
    /\ redisUp' = FALSE
    /\ UNCHANGED <<queue, running, workers, pc, cur, pend, sub, subData,
                   nextSeq, seqOf, returned, invoked, finished, statusVars,
                   lifeVars, lastCall, backoff, timeVars,
                   leftRunning, cancelReplies, storeCall>>

\* Redis answers again
RedisRecovers ==
    /\ ~redisUp
    /\ redisUp' = TRUE
    /\ UNCHANGED <<queue, running, workers, pc, cur, pend, sub, subData,
                   nextSeq, seqOf, returned, invoked, finished, statusVars,
                   lifeVars, lastCall, backoff, timeVars,
                   leftRunning, cancelReplies, storeCall>>

\* the service with a Redis that may fail and recover at any moment
NextFaulty ==
    \/ NextWith({"ocr_extraction", "bogus"}, {MinPriority},
                {PROCESSING_TIMEOUT - 1, PROCESSING_TIMEOUT + 100}, {"dict"}, {"boom"})
    \/ RedisFails
    \/ RedisRecovers

SpecFaulty == Init /\ [][NextFaulty]_vars

\* the state after QueueService(redis_service) with settings.MAX_WORKERS = 1:
\* one worker per task type
InitOneWorker == TypeInit /\ maxWorkers = 1

\* the pool is started and stopped any number of times while tasks run through
\* it

NextLife ==
    \/ NextWith({"ocr_extraction"}, {MinPriority}, {PROCESSING_TIMEOUT - 1},
                {"dict"}, {"boom"})
    \/ StopBegin
    \/ \E w \in WorkerIds, lands \in BOOLEAN : WorkerCancelled(w, lands)
    \/ StopEnd

SpecLife == InitOneWorker /\ [][NextLife]_vars

\* the event loop runs every task that is ready: a cancelled worker task is
\* resumed with its CancelledError, and stop_workers is resumed once the tasks
\* it gathers are done
FairLife ==
    /\ WF_vars(\E w \in WorkerIds, lands \in BOOLEAN : WorkerCancelled(w, lands))
    /\ WF_vars(StopEnd)

SpecLifeFair == InitOneWorker /\ [][NextLife]_vars /\ FairLife

\* half a TTL window passes: Redis removes the keys whose TTL has run out
Tick ==
    /\ \E t \in TaskIds : ttl[t] > 0 \/ sinceWrite[t] \in 0..(TTL - 1)
    /\ ttl' = [t \in TaskIds |->
                 IF ttl[t] > TTL \div 2 THEN ttl[t] - TTL \div 2 ELSE 0]
    /\ record' = [t \in TaskIds |-> IF ttl'[t] = 0 THEN NoRecord ELSE record[t]]
    /\ sinceWrite' = [t \in TaskIds |->
                 IF sinceWrite[t] \in 0..(TTL - 1)
                 THEN sinceWrite[t] + TTL \div 2 ELSE sinceWrite[t]]
    /\ UNCHANGED <<queue, redisUp, running, workers, pc, cur, pend, sub, subData,
                   nextSeq, seqOf, returned, invoked, finished, lifeVars,
                   lastCall, backoff, timeVars, leftRunning, cancelReplies,
                   storeCall>>

\* the service while time passes
NextTtl ==
    \/ NextWith({"ocr_extraction"}, {MinPriority}, {PROCESSING_TIMEOUT - 1},
                {"dict"}, {"boom"})
    \/ Tick

SpecTtl == Init /\ [][NextTtl]_vars

\* a caller of RedisService.enqueue_task
StoreEnqueue(q, task_data, priority) ==
    /\ queue' = EnqueueTask(q, task_data, priority)
    /\ lastCall' = [NoCall EXCEPT !.op = "enqueue_task", !.queue = q,
                       !.task_data = task_data, !.ok = EnqueueOk(task_data),
                       !.empty = (queue[q] = {})]
    /\ UNCHANGED <<redisUp, running, workers, pc, cur, pend, sub, subData,
                   nextSeq, seqOf, returned, invoked, finished, statusVars,
                   lifeVars, backoff, timeVars, leftRunning, cancelReplies,
                   storeCall>>

\* a caller of RedisService.dequeue_task
StoreDequeue(q) ==
    /\ queue' = DequeueRest(q)
    /\ lastCall' = [op |-> "dequeue_task", queue |-> q,
                    task_data |-> DequeueTask(q),
                    ok |-> DequeueTask(q) # NoTask, empty |-> queue[q] = {},
                    prevOp |-> lastCall.op, prevQueue |-> lastCall.queue,
                    prevData |-> lastCall.task_data,
                    prevEmpty |-> lastCall.empty]
    /\ UNCHANGED <<redisUp, running, workers, pc, cur, pend, sub, subData,
                   nextSeq, seqOf, returned, invoked, finished, statusVars,
                   lifeVars, backoff, timeVars, leftRunning, cancelReplies,
                   storeCall>>

\* the queue methods of RedisService called with any payload and priority
NextStore ==
    \/ \E q \in TaskType, t \in Tasks, v \in Values,
          p \in {MinPriority, MaxPriority} :
          StoreEnqueue(q, [task_id |-> t, task_type |-> q,
                           priority |-> MinPriority, body |-> v], p)
    \/ \E q \in TaskType : StoreDequeue(q)

SpecStore == Init /\ [][NextStore]_vars

\* the scenario: one worker per queue, three tasks of one type submitted one
\* after the other with the priorities 5, 9, 1
NextScenario ==
    \/ (~running /\ workers = {} /\ stopPc = "idle" /\ StartWorkers)
    \/ \E t \in DOMAIN ScenarioPriorities :
          /\ IF t = 1 THEN TRUE ELSE sub[t - 1] = "done"
          /\ SubmitTask(t, "ocr_extraction", ScenarioPriorities[t])
    \/ \E t \in TaskIds : SubmitEnqueue(t)
    \/ \E w \in WorkerIds : WorkerDequeue(w) /\ UNCHANGED timeVars
    \/ \E w \in WorkerIds : WorkerSetProcessing(w)
    \/ \E w \in WorkerIds : HandlerEnd(w, PROCESSING_TIMEOUT - 1, "return", "dict", "")
          /\ UNCHANGED leftRunning
    \/ \E w \in WorkerIds : HandlerEnd(w, PROCESSING_TIMEOUT - 1, "raise", "", "boom")
          /\ UNCHANGED leftRunning
    \/ \E w \in WorkerIds : WorkerSetTerminal(w)

SpecScenario == InitOneWorker /\ [][NextScenario]_vars

\* another producer on the same Redis adds to the queue of a registered type
\* a payload whose task_type has no handler
DirectEnqueue(t) ==
    /\ sub[t] = "none"
    /\ redisUp
    /\ subData' = [subData EXCEPT ![t] =
           [task_id |-> t, task_type |-> "bogus", priority |-> MinPriority,
            body |-> "dict"]]
    /\ queue' = EnqueueTask("ocr_extraction", subData'[t], MinPriority)
    /\ sub' = [sub EXCEPT ![t] = "direct"]
    /\ nextSeq' = nextSeq + 1
    /\ seqOf' = [seqOf EXCEPT ![t] = nextSeq + 1]
    /\ UNCHANGED <<redisUp, running, workers, pc, cur, pend, returned, invoked,
                   finished, statusVars, lifeVars, lastCall, backoff, timeVars,
                   leftRunning, cancelReplies, storeCall>>

\* the worker loop under everything that can go wrong in it: processors that
\* raise or run past the deadline, payloads of an unregistered type, and a
\* Redis that fails and recovers
NextWorker ==
    \/ NextWith({"ocr_extraction"}, {MinPriority},
                {PROCESSING_TIMEOUT - 1, PROCESSING_TIMEOUT + 100}, {"dict"}, {"boom"})
    \/ \E t \in Tasks : DirectEnqueue(t)
    \/ RedisFails
    \/ RedisRecovers

SpecWorker == InitOneWorker /\ [][NextWorker]_vars

\* the worker loop, with Redis answering, on a queue that also receives
\* payloads of an unregistered type from another producer
NextForeign ==
    \/ NextWith({"ocr_extraction"}, {MinPriority},
                {PROCESSING_TIMEOUT - 1}, {"dict"}, {"boom"})
    \/ \E t \in Tasks : DirectEnqueue(t)

SpecForeign == InitOneWorker /\ [][NextForeign]_vars

\* _worker: `while self.running` is false at the top of the loop, and the
\* coroutine returns
WorkerLoopExit(w) ==
    /\ pc[w] = "poll"
    /\ ~running
    /\ ~Cancelled(w)
    /\ pc' = [pc EXCEPT ![w] = "exited"]
    /\ UNCHANGED <<queue, redisUp, running, workers, cur, pend, sub, subData,
                   nextSeq, seqOf, returned, invoked, finished, statusVars,
                   lifeVars, lastCall, backoff, timeVars,
                   leftRunning, cancelReplies, storeCall>>

\* start_workers and stop_workers called in any order: a start while the pool
\* runs, and a start while stop_workers awaits its gather
NextPool ==
    \/ NextWith({"ocr_extraction"}, {MinPriority}, {PROCESSING_TIMEOUT - 1},
                {"dict"}, {"boom"})
    \/ StartWorkers
    \/ StopBegin
    \/ \E w \in WorkerIds, lands \in BOOLEAN : WorkerCancelled(w, lands)
    \/ StopEnd
    \/ \E w \in WorkerIds : WorkerLoopExit(w)

SpecPool == InitOneWorker /\ [][NextPool]_vars

\* submit_task called once more with the task_data of an earlier call, whose
\* task_id the caller reuses: validation passes as before and the PENDING
\* write goes to the same key "task:<id>".  At most one more ZADD than there
\* are task ids
SubmitAgain(t) ==
    /\ sub[t] = "done"
    /\ nextSeq <= MaxTasks
    /\ SubmitValid(subData[t].task_type, t, subData[t].priority)
    /\ WriteStatus(t, PENDING, NoResult)
    /\ sub' = [sub EXCEPT ![t] = "enqueue"]
    /\ UNCHANGED <<queue, redisUp, running, workers, pc, cur, pend, subData,
                   nextSeq, seqOf, returned, invoked, finished, lifeVars,
                   lastCall, backoff, timeVars, leftRunning, cancelReplies,
                   storeCall>>

\* the service with callers that reuse task ids
NextReuse ==
    \/ NextWith({"ocr_extraction"}, {MinPriority}, {PROCESSING_TIMEOUT - 1},
                {"dict"}, {"boom"})
    \/ \E t \in Tasks : SubmitAgain(t)

SpecReuse == InitOneWorker /\ [][NextReuse]_vars

\* variant: an empty queue is answered with the sleep of the error branch
EmptyQueueWaitRetryDelay == RetryDelay

\* the asyncio.sleep(1) of a worker whose dequeue returned None
EmptyQueueWait == IdleDelay

\* _worker with its sleeps timed: a worker dequeues when it is not asleep, and
\* on None it sleeps EmptyQueueWait seconds before the next turn of its loop
TimedDequeue(w) ==
    /\ nap[w] = 0
    /\ WorkerDequeue(w)
    /\ nap' = [nap EXCEPT ![w] =
           IF DequeueTask(QueueOf(w)) = NoTask THEN EmptyQueueWait ELSE 0]
    /\ UNCHANGED <<waited, idleAge>>

\* task t is in queue q
QueuedIn(t, q) == \E e \in queue[q] : e.member.task_id = t

\* one second passes.  A worker that is awake at the top of its loop has made
\* its dequeue before the second is over; every sleep has one second less to
\* go; the tasks in a queue have waited one second more (counted up to one
\* second past the idle interval)
Second ==
    /\ \A w \in WorkerIds : pc[w] = "poll" /\ running => nap[w] > 0
    /\ \/ \E w \in WorkerIds : nap[w] > 0
       \/ \E t \in Tasks, q \in TaskType : QueuedIn(t, q) /\ waited[t] <= IdleDelay
    /\ nap' = [w \in WorkerIds |-> IF nap[w] > 0 THEN nap[w] - 1 ELSE 0]
    /\ waited' = [t \in TaskIds |->
           IF (\E q \in TaskType : QueuedIn(t, q)) /\ waited[t] <= IdleDelay
           THEN waited[t] + 1 ELSE waited[t]]
    /\ idleAge' = [t \in TaskIds |->
           IF /\ \E w \in WorkerIds : pc[w] = "poll" /\ QueuedIn(t, QueueOf(w))
              /\ idleAge[t] <= IdleDelay
           THEN idleAge[t] + 1 ELSE idleAge[t]]
    /\ UNCHANGED <<queue, redisUp, running, workers, pc, cur, pend, sub, subData,
                   nextSeq, seqOf, returned, invoked, finished, statusVars,
                   lifeVars, lastCall, backoff, leftRunning, cancelReplies,
                   storeCall>>

\* the running pool with time: one worker per queue that polls, sleeps and
\* processes while tasks of one type are submitted
NextPoll ==
    \/ (~running /\ workers = {} /\ stopPc = "idle" /\ StartWorkers)
    \/ \E t \in Tasks : SubmitTask(t, "ocr_extraction", MinPriority)
    \/ \E t \in Tasks : SubmitEnqueue(t)
    \/ \E w \in WorkerIds : TimedDequeue(w)
    \/ \E w \in WorkerIds : WorkerSetProcessing(w)
    \/ \E w \in WorkerIds :
          HandlerEnd(w, PROCESSING_TIMEOUT - 1, "return", "dict", "")
          /\ UNCHANGED leftRunning
    \/ \E w \in WorkerIds : WorkerSetTerminal(w)
    \/ Second

SpecPoll == InitOneWorker /\ [][NextPoll]_vars

\* the running pool on tasks of two priorities whose processors return any
\* value, raise, or run past the deadline
NextRun ==
    NextWith({"ocr_extraction"}, {MinPriority, MaxPriority},
             {PROCESSING_TIMEOUT - 1, PROCESSING_TIMEOUT + 100},
             ReturnValues, {"boom"})

\* the pool is started; the event loop resumes every coroutine whose await
\* has completed: Redis answers each command, a processor call ends or is
\* ended by wait_for at the deadline, and a sleeping worker wakes to find a
\* queue that is not empty
FairRun ==
    /\ WF_vars(~running /\ workers = {} /\ stopPc = "idle" /\ StartWorkers)
    /\ WF_vars(\E t \in Tasks : SubmitEnqueue(t))
    /\ WF_vars(\E w \in WorkerIds : WorkerDequeue(w) /\ UNCHANGED timeVars)
    /\ WF_vars(\E w \in WorkerIds : WorkerSetProcessing(w))
    /\ WF_vars(\E w \in WorkerIds, d \in Durations, v \in ReturnValues :
                  HandlerEnd(w, d, "return", v, "")
                  /\ UNCHANGED leftRunning)
    /\ WF_vars(\E w \in WorkerIds : WorkerSetTerminal(w))

SpecRunFair == InitOneWorker /\ [][NextRun]_vars /\ FairRun

\* the running pool on tasks of two task types
NextTypes ==
    NextWith({"ocr_extraction", "step_detection"}, {MinPriority},
             {PROCESSING_TIMEOUT - 1}, {"dict"}, {"boom"})

SpecTypes == InitOneWorker /\ [][NextTypes]_vars

\* whether a processor hands a blocking call to a thread of the default
\* executor: the OCR processor awaits reader.readtext in one; the step
\* detector awaits only its downloads
UsesExecutor(handler) == handler = "ocr_service.process"

\* variant: the deadline passes without the processor coroutine being cancelled
LeftRunningNoCancel(handler) == {{"coroutine"}}

\* asyncio.wait_for at the deadline: it cancels the processor coroutine and
\* waits for it to end before TimeoutError is raised; a call the coroutine was
\* awaiting in an executor thread cannot be cancelled and runs on to its end.
\* The deadline may also pass while the processor is not in such a call.
LeftRunning(handler) ==
    IF UsesExecutor(handler) THEN {{}, {"thread"}} ELSE {{}}

\* _process_task: the processor call under the deadline comes to an end, with
\* what it leaves running behind it
ProcessorCall(w, needed) ==
    /\ HandlerEnd(w, needed, "return", "dict", "")
    /\ \E left \in LeftRunning(invoked[cur[w].task_id].handler) :
          leftRunning' = [leftRunning EXCEPT ![cur[w].task_id] =
                 IF invoked'[cur[w].task_id].kind = "timeout"
                 THEN left ELSE {}]

\* the call left in an executor thread returns; nobody awaits its result
ExecutorJobEnds(t) ==
    /\ "thread" \in leftRunning[t]
    /\ leftRunning' = [leftRunning EXCEPT ![t] = @ \ {"thread"}]
    /\ UNCHANGED <<queue, redisUp, running, workers, pc, cur, pend, sub,
                   subData, nextSeq, seqOf, returned, invoked, finished,
                   statusVars, lifeVars, lastCall, backoff, timeVars,
                   cancelReplies, storeCall>>

\* the running pool on tasks of two types whose processors finish in time or
\* run past the deadline
NextAbort ==
    \/ (~running /\ workers = {} /\ stopPc = "idle" /\ StartWorkers)
    \/ \E t \in Tasks, ty \in {"ocr_extraction", "step_detection"} :
          SubmitTask(t, ty, MinPriority)
    \/ \E t \in Tasks : SubmitEnqueue(t)
    \/ \E w \in WorkerIds : WorkerDequeue(w) /\ UNCHANGED timeVars
    \/ \E w \in WorkerIds : WorkerSetProcessing(w)
    \/ \E w \in WorkerIds,
          d \in {PROCESSING_TIMEOUT - 1, PROCESSING_TIMEOUT + 100} :
          ProcessorCall(w, d)
    \/ \E w \in WorkerIds : WorkerSetTerminal(w)
    \/ \E t \in Tasks : ExecutorJobEnds(t)

SpecAbort == InitOneWorker /\ [][NextAbort]_vars

\* variant: the cancel endpoint takes the pending task out of its queue
CancelTaskRemovesEntry(task_id) ==
    /\ cancelReplies' = cancelReplies \cup {task_id}
    /\ queue' = [q \in QueueNames |->
                    {e \in queue[q] : e.member.task_id # task_id}]
    /\ UNCHANGED <<redisUp, running, workers, pc, cur, pend, sub, subData,
                   nextSeq, seqOf, returned, invoked, finished, statusVars,
                   lifeVars, lastCall, backoff, timeVars, leftRunning,
                   storeCall>>

\* cancel_task (DELETE /tasks/{task_id}): answers {"task_id": task_id,
\* "status": "cancelled"} for any id, known or not, and does nothing else
CancelTask(task_id) ==
    /\ cancelReplies' = cancelReplies \cup {task_id}
    /\ UNCHANGED <<queue, redisUp, running, workers, pc, cur, pend, sub,
                   subData, nextSeq, seqOf, returned, invoked, finished,
                   statusVars, lifeVars, lastCall, backoff, timeVars,
                   leftRunning, storeCall>>

\* the running pool while clients call the cancel endpoint
NextCancel ==
    \/ NextWith({"ocr_extraction"}, {MinPriority},
                {PROCESSING_TIMEOUT - 1}, {"dict"}, {"boom"})
    \/ \E t \in TaskIds : CancelTask(t)

SpecCancel == InitOneWorker /\ [][NextCancel]_vars

\* what a direct call of a RedisService method leaves alone besides the store
callFrame == <<running, workers, pc, cur, pend, sub, subData, nextSeq, seqOf,
               returned, invoked, finished, lifeVars, lastCall, backoff,
               timeVars, leftRunning, cancelReplies>>

\* the record of a call that has come back: every method catches Exception,
\* logs it, and returns
Returned(op, failed, ret) ==
    [op |-> op, failed |-> failed, raised |-> FALSE, ret |-> ret,
     flip |-> ~storeCall.flip]

\* enqueue_task called directly: True, or False when ZADD or json.dumps raised
CallEnqueueTask(q, task_data, priority) ==
    /\ queue' = EnqueueTask(q, task_data, priority)
    /\ storeCall' = Returned("enqueue_task", ~redisUp, EnqueueOk(task_data))
    /\ UNCHANGED <<redisUp, statusVars, callFrame>>

\* dequeue_task called directly: the payload, or None when ZPOPMIN raised or
\* the queue is empty
CallDequeueTask(q) ==
    /\ queue' = DequeueRest(q)
    /\ storeCall' = Returned("dequeue_task", ~redisUp, DequeueTask(q))
    /\ UNCHANGED <<redisUp, statusVars, callFrame>>

\* get_queue_size called directly: ZCARD, or 0 when it raised
CallGetQueueSize(q) ==
    /\ storeCall' = Returned("get_queue_size", ~redisUp, GetQueueSize(q))
    /\ UNCHANGED <<queue, redisUp, statusVars, callFrame>>

\* get_task_status called directly: the hash, or None when HGETALL raised or
\* the hash is not there
CallGetTaskStatus(task_id) ==
    /\ storeCall' = Returned("get_task_status", ~redisUp,
                             GetTaskStatus(task_id))
    /\ UNCHANGED <<queue, redisUp, statusVars, callFrame>>

\* set_task_status called directly. HSET and EXPIRE are two commands awaited
\* one after the other inside one try: the backend may stop answering at the
\* EXPIRE, with the HSET carried out; the exception is logged and the method
\* returns None as it does after a complete write
CallSetTaskStatus(task_id, status, result, expireFails) ==
    /\ IF StatusWriteLands(result) /\ expireFails
       THEN /\ record' = SetTaskStatus(task_id, status, result)
            /\ sinceWrite' = [sinceWrite EXCEPT ![task_id] = 0]
            /\ ttl' = ttl
            /\ redisUp' = FALSE
            /\ storeCall' = Returned("set_task_status", TRUE, "None")
       ELSE /\ WriteStatus(task_id, status, result)
            /\ redisUp' = redisUp
            /\ storeCall' = Returned("set_task_status", ~redisUp, "None")
    /\ UNCHANGED <<queue, callFrame>>

\* the methods of RedisService called with any arguments on a Redis that may
\* fail at any command and recover
NextBackend ==
    \/ \E t \in Tasks, v \in {"dict", "object"} :
          CallEnqueueTask("ocr_extraction",
                          [task_id |-> t, task_type |-> "ocr_extraction",
                           priority |-> MinPriority, body |-> v], MinPriority)
    \/ CallDequeueTask("ocr_extraction")
    \/ CallGetQueueSize("ocr_extraction")
    \/ \E t \in Tasks : CallGetTaskStatus(t)
    \/ \E t \in Tasks, st \in {PENDING, COMPLETED},
          res \in {NoResult, ResultData("dict", 1, NoWorker)},
          expireFails \in BOOLEAN :
          CallSetTaskStatus(t, st, res, expireFails)
    \/ RedisFails /\ UNCHANGED storeCall
    \/ RedisRecovers /\ UNCHANGED storeCall

SpecBackend == InitOneWorker /\ [][NextBackend]_vars

(* ------------------------------ claims --------------------------------- *)
InQueue(t) == \E q \in QueueNames : \E e \in queue[q] : e.member.task_id = t
Terminal(status) == status \in {COMPLETED, FAILED}
\* the error text a status record carries ("" when it carries none)
ErrorOf(rec) == IF rec.result.kind = "error_data" THEN rec.result.error ELSE ""
\* whether a status record carries a processing_time
HasProcessingTime(rec) == rec.result.kind = "result_data"

\* C1: an entry is returned by dequeue_task at most once, to one caller; a
\* returned entry is no longer in its queue; every enqueued entry is either
\* still queued or was returned, so a drained queue has handed out exactly the
\* entries that were enqueued
C1_DequeueExactlyOnce ==
    /\ \A t \in Tasks :
          /\ returned[t] <= 1
          /\ returned[t] = 1 => ~InQueue(t) /\ sub[t] = "done"
          /\ sub[t] = "done" => InQueue(t) \/ returned[t] = 1
    /\ \A w1, w2 \in WorkerIds :
          w1 # w2 /\ cur[w1] # NoTask => cur[w1] # cur[w2]

\* two workers of one queue hold one entry each and the queue is drained
C1_Witness ==
    /\ \A t \in Tasks : returned[t] = 1
    /\ \A q \in QueueNames : queue[q] = {}
    /\ \E w1, w2 \in WorkerIds :
          /\ w1 # w2 /\ QueueOf(w1) = QueueOf(w2)
          /\ cur[w1] # NoTask /\ cur[w2] # NoTask

\* C2: the entry a dequeue returns has a priority at least that of every
\* entry then left in its queue
C2_HighestPriorityFirst ==
    [][\A t \in Tasks :
          returned'[t] > returned[t]
          => \A e \in queue'[subData[t].task_type] :
                subData[t].priority >= e.member.priority]_vars

\* the task enqueued second, with the higher priority and the later byte
\* order, was returned while the task enqueued first is still queued
C2_Witness ==
    \E t1, t2 \in Tasks :
       /\ nextSeq = 2 /\ seqOf[t2] = 1 /\ InQueue(t2)
       /\ returned[t1] = 1 /\ t2 < t1
       /\ subData[t1].task_type = subData[t2].task_type
       /\ subData[t1].priority > subData[t2].priority

\* C3 (as claimed): among queued entries of equal priority a dequeue returns
\* the one enqueued first
C3_FifoAmongEqualPriority ==
    [][\A t \in Tasks :
          returned'[t] > returned[t]
          => \A e \in queue'[subData[t].task_type] :
                e.member.priority = subData[t].priority
                => seqOf[t] < seqOf[e.member.task_id]]_vars

\* C4: a status record only moves none -> PENDING -> PROCESSING -> COMPLETED
\* or FAILED, and a COMPLETED or FAILED record never changes again
C4_StatusMonotonic ==
    [][\A t \in Tasks :
          /\ record'[t].status # record[t].status
             => <<record[t].status, record'[t].status>> \in
                   {<<"none", PENDING>>, <<PENDING, PROCESSING>>,
                    <<PROCESSING, COMPLETED>>, <<PROCESSING, FAILED>>}
          /\ Terminal(record[t].status) => record'[t] = record[t]]_vars

\* one record has reached COMPLETED and another FAILED
C4_Witness ==
    \E t1, t2 \in Tasks :
       /\ GetTaskStatus(t1).status = COMPLETED
       /\ GetTaskStatus(t2).status = FAILED

\* C5 (as claimed): a task whose processing by a worker is over has a status
\* record of COMPLETED or FAILED
C5_ClaimedTaskEndsTerminal ==
    \A t \in finished : Terminal(GetTaskStatus(t).status)

\* C6: a submit_task call with a task type that is not registered ends in the
\* validation error, changes no queue's size and writes no status record
C6_UnknownTypeRejected ==
    [][\A t \in Tasks :
          sub[t] = "none" /\ sub'[t] # "none" /\ subData'[t].task_type \notin TaskType
          => /\ sub'[t] = "ValueError"
             /\ \A q \in QueueNames : Cardinality(queue'[q]) = Cardinality(queue[q])
             /\ record' = record]_vars

\* a submission of an unknown type was rejected while a task was queued and
\* another record existed; the rejected id has no record and no entry
C6_Witness ==
    \E t \in Tasks :
       /\ sub[t] = "ValueError" /\ subData[t].task_type = "bogus"
       /\ GetTaskStatus(t) = NoRecord /\ ~InQueue(t)
       /\ \E u \in Tasks : InQueue(u) /\ GetTaskStatus(u).status = PENDING

\* C7 (as claimed): a submission with a priority outside 1..10 ends in the
\* validation error, and every queued entry has a priority in 1..10
C7_PriorityInRange ==
    /\ \A t \in Tasks :
          sub[t] # "none" /\ subData[t].priority \notin MinPriority..MaxPriority
          => sub[t] = "ValueError"
    /\ \A q \in QueueNames : \A e \in queue[q] :
          e.member.priority \in MinPriority..MaxPriority

\* C8 (as claimed): once a task whose processor raised is done with, its
\* record is FAILED with a non-empty error and without a processor result
C8_RaiseGivesFailedWithError ==
    \A t \in finished :
       invoked[t].kind = "raise"
       => /\ GetTaskStatus(t).status = FAILED
          /\ ErrorOf(GetTaskStatus(t)) # ""
          /\ GetTaskStatus(t).result.kind # "result_data"

C10_TimeoutRecordsProcessingTime ==
    \A t \in finished :
       invoked[t].needed = PROCESSING_TIMEOUT + 100
       => /\ GetTaskStatus(t).status = FAILED
          /\ ErrorOf(GetTaskStatus(t)) = "Task timed out"
          /\ HasProcessingTime(GetTaskStatus(t))
          /\ GetTaskStatus(t).result.processing_time = PROCESSING_TIMEOUT

\* C10 (amended): for that processor the call is cut off at the deadline and
\* the FAILED record carries the error "Task timed out" and no processing_time
C10_TimeoutRecordsErrorOnly ==
    \A t \in finished :
       invoked[t].needed = PROCESSING_TIMEOUT + 100
       => /\ invoked[t].kind = "timeout"
          /\ invoked[t].elapsed = PROCESSING_TIMEOUT
          /\ GetTaskStatus(t).status = FAILED
          /\ GetTaskStatus(t).result = ErrorData("Task timed out")
          /\ ~HasProcessingTime(GetTaskStatus(t))

\* the worker is done with a task whose processor blocked 400 time units
C10_Witness ==
    \E t \in finished :
       /\ invoked[t].needed = PROCESSING_TIMEOUT + 100
       /\ GetTaskStatus(t).status = FAILED

\* C11 (as claimed): once the worker is done with a task whose processor
\* returned within the deadline, the record is COMPLETED and carries exactly
\* the value the processor returned, the measured processing_time, no error
C11_ReturnGivesCompletedWithValue ==
    \A t \in finished :
       invoked[t].kind = "return"
       => /\ GetTaskResult(t).status = COMPLETED
          /\ GetTaskResult(t).result.kind = "result_data"
          /\ GetTaskResult(t).result.result = invoked[t].value
          /\ GetTaskResult(t).result.processing_time = invoked[t].elapsed
          /\ ErrorOf(GetTaskResult(t)) = ""

\* C12: get_task_result for a task id that was never submitted returns None,
\* whatever was submitted or processed under other ids
C12_NeverSubmittedNotFound ==
    \A t \in TaskIds : sub[t] = "none" => GetTaskResult(t) = NoRecord

\* one id was never submitted while the task of another id was processed to
\* COMPLETED; the query for the first returns None
C12_Witness ==
    \E t, u \in Tasks :
       /\ sub[t] = "none" /\ GetTaskResult(t) = NoRecord
       /\ u \in finished /\ GetTaskResult(u).status = COMPLETED

\* C13: every status write gives the record the full TTL again: while less
\* than the window of 3600 has passed since the last write that landed the
\* record is readable and has the rest of the window to live, and once the
\* window has passed get_task_result returns None, for a COMPLETED task too
C13_TtlResetOnEveryWrite ==
    \A t \in TaskIds :
       /\ sinceWrite[t] \in 0..(TTL - 1)
          => /\ GetTaskResult(t) # NoRecord
             /\ ttl[t] = TTL - sinceWrite[t]
       /\ sinceWrite[t] >= TTL => GetTaskResult(t) = NoRecord
       /\ sinceWrite[t] = -1 => GetTaskResult(t) = NoRecord

\* a task that was COMPLETED is no longer found a window after its last
\* write, while the record of another task, written half a window ago, is
\* still readable as COMPLETED
C13_Witness ==
    \E t, u \in finished :
       /\ invoked[t].kind = "return" /\ sinceWrite[t] = TTL
       /\ GetTaskResult(t) = NoRecord
       /\ sinceWrite[u] = TTL \div 2
       /\ GetTaskResult(u).status = COMPLETED

\* a dequeue_task that was called right after an enqueue_task on the same
\* queue, which the enqueue_task had found empty
RoundTripCall ==
    /\ lastCall.op = "dequeue_task"
    /\ lastCall.prevOp = "enqueue_task"
    /\ lastCall.prevQueue = lastCall.queue
    /\ lastCall.prevEmpty

\* C14 (as claimed): enqueue_task on an empty queue followed at once by
\* dequeue_task on that queue returns the payload enqueued, for every payload
\* and every priority
C14_RoundTripEveryPayload ==
    RoundTripCall => lastCall.task_data = lastCall.prevData

\* C14 (amended): the round trip returns the payload enqueued when it is made
\* of JSON values; a payload that holds a tuple comes back with a list in its
\* place, and a payload json.dumps rejects is not enqueued and the dequeue
\* returns None
C14_RoundTripJsonPayload ==
    RoundTripCall
    => /\ lastCall.prevData.body = "dict" => lastCall.task_data = lastCall.prevData
       /\ lastCall.prevData.body = "tuple"
          => lastCall.task_data = [lastCall.prevData EXCEPT !.body = "dict"]
       /\ lastCall.prevData.body = "object" => lastCall.task_data = NoTask

\* a payload of JSON values was enqueued on an empty queue while the other
\* queue held an entry, and the dequeue that
\* followed returned it
C14_Witness ==
    /\ RoundTripCall
    /\ lastCall.ok
    /\ lastCall.prevData.body = "dict"
    /\ lastCall.task_data = lastCall.prevData
    /\ queue[lastCall.queue] = {}
    /\ \E q \in TaskType : queue[q] # {}

\* C15 (as claimed): the tasks with the ids 1, 2, 3 are submitted in this
\* order with the priorities 5, 9, 1; the one worker of their queue takes the
\* priority 9 task before the priority 5 task, and that before the priority 1
\* task, however the submissions interleave with its polling
C15_StartOrder951 ==
    /\ returned[1] = 1 => returned[2] = 1
    /\ returned[3] = 1 => returned[1] = 1 /\ returned[2] = 1

\* C15 (amended): the worker takes the priority 1 task last, and takes the
\* priority 5 task before the priority 9 task only at a moment when the
\* priority 9 task is not in the queue
C15_StartOrderOfEnqueued ==
    [][/\ returned'[1] > returned[1] => ~InQueue(2)
       /\ returned'[3] > returned[3] => returned[1] = 1 /\ returned[2] = 1]_vars

\* the three tasks were enqueued before the worker polled: it holds the
\* priority 9 task while the tasks of priority 5 and 1 are queued
C15_Witness ==
    /\ \E w \in WorkerIds : cur[w].task_id = 2 /\ cur[w].priority = 9
    /\ returned[2] = 1
    /\ InQueue(1) /\ InQueue(3)

\* C16: start_workers on a stopped service leaves it running with MAX_WORKERS
\* live workers for each task type and that many handles for each type in the
\* worker list, and a worker only ever takes an entry of its own type's queue
C16_StartSpawnsWorkersPerType ==
    [][/\ ~running /\ workers = {} /\ running'
          => /\ \A ty \in TaskType :
                   Cardinality({w \in workers' : QueueOf(w) = ty /\ pc'[w] = "poll"})
                      = maxWorkers
             /\ Cardinality(workers') = Cardinality(TaskType) * maxWorkers
             /\ \A w \in WorkerIds : pc'[w] \in Live => w \in workers'
       /\ \A w \in WorkerIds :
             cur'[w] # cur[w] /\ cur'[w] # NoTask
             => /\ \E e \in queue[QueueOf(w)] : e.member = cur'[w]
                /\ \A q \in QueueNames \ {QueueOf(w)} : queue'[q] = queue[q]]_vars

\* the service was started: it runs with MAX_WORKERS handles per type, a
\* worker holds a task of its own type and the workers of the other type,
\* whose queue is empty, hold none
C16_Witness ==
    /\ running
    /\ maxWorkers = MAX_WORKERS
    /\ Cardinality(workers) = Cardinality(TaskType) * MAX_WORKERS
    /\ \E w \in workers :
          /\ cur[w] # NoTask /\ cur[w].task_type = QueueOf(w)
          /\ \A v \in workers : QueueOf(v) # QueueOf(w) => cur[v] = NoTask

\* stop_workers is not in progress and the service is not running
Stopped == stopPc = "idle" /\ ~running

\* C17: when stop_workers has returned the service is stopped, its worker list
\* is empty and every worker has left its loop; while the service is stopped
\* no entry is dequeued and the only status written is the PENDING of a
\* submission
C17_StopWaitsForWorkers ==
    [][/\ Stopped'
          => /\ workers' = {}
             /\ \A w \in WorkerIds : pc'[w] \notin Live
       /\ stopPc = "gather" /\ stopPc' = "idle" => Stopped'
       /\ Stopped /\ Stopped'
          => /\ returned' = returned
             /\ \A q \in QueueNames : queue[q] \subseteq queue'[q]
             /\ \A t \in TaskIds :
                   record'[t] # record[t] => record'[t].status = PENDING]_vars

\* stop_workers has returned on a service whose workers were at work: the
\* workers are gone, a task is left PROCESSING and another is still queued
C17_Witness ==
    /\ Stopped /\ stopParity = 1
    /\ workers = {}
    /\ \E w \in WorkerIds : pc[w] = "exited"
    /\ \A w \in WorkerIds : pc[w] \notin Live
    /\ \E t, u \in Tasks :
          /\ GetTaskResult(t).status = PROCESSING /\ returned[t] = 1
          /\ InQueue(u)

\* C18: a stop_workers call on a service that is stopped (never started, or
\* stopped before) returns at once and leaves running, the worker list, the
\* queues and the status records as they were
C18_StopIdempotent ==
    [][Stopped /\ workers = {} /\ stopParity' # stopParity
       => /\ stopPc' = "idle"
          /\ running' = running
          /\ workers' = workers
          /\ queue' = queue
          /\ record' = record
          /\ pc' = pc]_vars

\* stop_workers was called twice, one of the calls on a stopped service; the
\* workers of the one start are gone, a task is queued with its PENDING record
C18_Witness ==
    /\ Stopped /\ stopParity = 0
    /\ \E w \in WorkerIds : pc[w] = "exited"
    /\ \E t \in Tasks : InQueue(t) /\ GetTaskResult(t).status = PENDING

\* C19: a worker leaves its loop only when stop_workers has cancelled it;
\* whatever a step of the worker runs into (a processor that raises or times
\* out, a task type without handler, a Redis command that fails) the worker
\* goes on: to the FAILED write after a failed processor call or lookup, and
\* back to the dequeue after the terminal write or a failed dequeue
C19_WorkerSurvivesErrors ==
    [][\A w \in WorkerIds :
          /\ pc[w] \in Live /\ pc'[w] \notin Live
             => Cancelled(w) /\ pc'[w] = "exited"
          /\ ~Cancelled(w) /\ pc'[w] # pc[w]
             => /\ pc[w] = "poll" => pc'[w] = "setProcessing"
                /\ pc[w] = "setProcessing" => pc'[w] \in {"handler", "setTerminal"}
                /\ pc[w] = "handler" => pc'[w] = "setTerminal"
                /\ pc[w] = "setTerminal" => pc'[w] = "poll"]_vars

\* the worker has been through a processor that timed out and a task of an
\* unregistered type whose FAILED write Redis did not take, and it is back at
\* the dequeue while Redis is down
C19_Witness ==
    /\ ~redisUp /\ running
    /\ workers # {}
    /\ \A w \in workers : pc[w] = "poll"
    /\ \E t1, t2 \in finished :
          /\ invoked[t1].kind = "timeout"
          /\ sub[t2] = "direct" /\ subData[t2].task_type \notin TaskType
          /\ record[t2].status # FAILED

\* C20: the processor is called at most once for a task, an entry comes into
\* a queue only through the enqueue of its submit_task call, and a task the
\* worker is done with is never in a queue again
C20_NoAutomaticRetry ==
    [][\A t \in TaskIds :
          /\ invoked'[t].n <= 1
          /\ InQueue(t)' /\ ~InQueue(t) => sub[t] = "enqueue" /\ sub'[t] = "done"
          /\ t \in finished => ~InQueue(t)']_vars

\* one task failed with an exception of its processor and another timed out;
\* each was given to the processor once, the queues are empty and every
\* worker is back at the dequeue
C20_Witness ==
    /\ \E t1, t2 \in finished :
          /\ invoked[t1].kind = "raise" /\ invoked[t2].kind = "timeout"
          /\ \A t \in {t1, t2} :
                /\ GetTaskResult(t).status = FAILED
                /\ invoked[t].n = 1 /\ returned[t] = 1
    /\ \A q \in QueueNames : queue[q] = {}
    /\ \A w \in workers : pc[w] = "poll"

\* C21: a task and its status record are created atomically at submission:
\* when a submit_task call returns or raises, either the task is in its
\* queue with a PENDING record, or it is in no queue and has no record.
C21_SubmitAtomic ==
    [][\A t \in Tasks :
          /\ sub[t] \in {"none", "enqueue"}
          /\ sub'[t] \in {"done", "RuntimeError", "ValueError"}
          => \/ InQueue(t)' /\ record'[t].status = PENDING
             \/ ~InQueue(t)' /\ record'[t] = NoRecord]_vars

\* C23 (as claimed): once the worker is done with a task whose processor
\* returned, within the deadline, a value that cannot be stored as a result,
\* the task's status is FAILED; it is not left PROCESSING.
C23_InvalidResultGivesFailed ==
    \A t \in finished :
       /\ invoked[t].kind = "return"
       /\ invoked[t].elapsed < PROCESSING_TIMEOUT
       /\ JsonRejects(invoked[t].value)
       => /\ record[t].status = FAILED
          /\ record[t].status # PROCESSING

\* C26: submit_task issues the PENDING write before it enqueues: the PENDING
\* write of a task is issued when no worker has claimed the task and nothing
\* has been written to its record, and a worker only ever claims a task whose
\* PENDING write has been issued and has come back.
C26_PendingWriteComesFirst ==
    [][\A t \in Tasks :
          /\ sub[t] = "none" /\ sub'[t] = "enqueue"
             => /\ returned[t] = 0
                /\ record[t] = NoRecord
                /\ record'[t].status = PENDING
                /\ ~InQueue(t)'
          /\ returned'[t] > returned[t]
             => /\ sub[t] = "done"
                /\ record[t].status = PENDING]_vars

\* a worker has claimed a submitted task and written PROCESSING over its
\* PENDING record while another submit_task call is between its two writes
C26_Witness ==
    \E t1, t2 \in Tasks :
       /\ sub[t1] = "done" /\ returned[t1] = 1
       /\ record[t1].status = PROCESSING
       /\ sub[t2] = "enqueue"
       /\ record[t2].status = PENDING

\* the workers that hold task t: claimed it and are not yet done with it
Holders(t) == {w \in WorkerIds : cur[w].task_id = t}

\* C27: at most one worker ever processes a submitted task and no two workers
\* hold the same task at any time; after the PENDING write, every change of
\* the task's record is a write of the one worker that holds the task.
C27_OneWorkerPerTask ==
    [][\A t \in Tasks :
          /\ Cardinality(Holders(t)') <= 1
          /\ invoked'[t].n <= 1
          /\ returned'[t] > returned[t] => returned[t] = 0 /\ ~(t \in finished)
          /\ sub[t] = "done" /\ record'[t] # record[t]
             => \E w \in WorkerIds :
                   /\ Holders(t) = {w}
                   /\ pc[w] \in {"setProcessing", "setTerminal"}
                   /\ pc'[w] # pc[w]
                   /\ record'[t].status = COMPLETED
                      => record'[t].result.worker_id = WorkerName(w)]_vars

\* two workers of one queue have each processed a different task to the end
C27_Witness ==
    \E t1, t2 \in Tasks :
       /\ t1 # t2
       /\ {t1, t2} \subseteq finished
       /\ record[t1].status = COMPLETED /\ record[t2].status = COMPLETED
       /\ record[t1].result.worker_id # record[t2].result.worker_id

\* C29: the PROCESSING write comes before the processor is invoked: while a
\* processor invocation for a task is in progress, with Redis taking every
\* write, the task's record is PROCESSING and holds no result.
C29_ProcessingWhileInvoked ==
    \A w \in WorkerIds :
       pc[w] = "handler"
       => /\ invoked[cur[w].task_id].n = 1
          /\ GetTaskStatus(cur[w].task_id).status = PROCESSING
          /\ GetTaskStatus(cur[w].task_id).result = NoResult

\* two processor invocations are in progress at once
C29_Witness ==
    \E w1, w2 \in WorkerIds :
       /\ w1 # w2
       /\ pc[w1] = "handler" /\ pc[w2] = "handler"
       /\ record[cur[w1].task_id].status = PROCESSING
       /\ record[cur[w2].task_id].status = PROCESSING

\* C28: for a claimed task whose task_type has no registered processor, no
\* processor is invoked, the record goes to PROCESSING and from there to
\* FAILED with a non-empty error, and the task is never in a queue again.
C28_NoHandlerGivesFailed ==
    [][\A t \in Tasks :
          sub[t] = "direct" /\ subData[t].task_type \notin DOMAIN task_handlers
          => /\ invoked'[t].n = 0
             /\ returned'[t] <= 1
             /\ record'[t] # record[t]
                => \/ record[t] = NoRecord /\ record'[t].status = PROCESSING
                   \/ /\ record[t].status = PROCESSING
                      /\ record'[t].status = FAILED
                      /\ ErrorOf(record'[t]) # ""
             /\ returned[t] = 1 => ~InQueue(t)'
             /\ t \in finished'
                => record'[t].status = FAILED /\ ErrorOf(record'[t]) # ""]_vars

\* a task of an unregistered type has ended FAILED, and the worker that had
\* claimed it has since completed a task of its own type
C28_Witness ==
    \E t1, t2 \in finished :
       /\ sub[t1] = "direct" /\ subData[t1].task_type \notin DOMAIN task_handlers
       /\ record[t1].status = FAILED /\ invoked[t1].n = 0
       /\ sub[t2] = "done" /\ record[t2].status = COMPLETED
       /\ \A w \in workers : pc[w] = "poll"

\* C24 (as claimed): a worker whose Redis call failed, in the dequeue or in a
\* status write, waits the 5 s backoff before its next dequeue attempt: never
\* the 1 s of an empty queue and never no time at all.
C24_BackoffAfterStoreFailure ==
    \A w \in WorkerIds : backoff[w] \in {-1, RetryDelay}

\* C22 (as claimed): every worker coroutine that has not exited has its handle
\* in self.workers, so that the next stop_workers cancels it and
\* get_queue_stats counts it, also when start_workers is called while
\* stop_workers awaits its gather.
C22_LiveWorkersAreOwned ==
    \A w \in WorkerIds : pc[w] \in Live => w \in workers

\* C30 (as claimed): whatever the sequence of start_workers and stop_workers
\* calls, start_workers twice in a row included, no task type ever has more
\* than settings.MAX_WORKERS live workers.
C30_AtMostMaxWorkersPerType ==
    \A ty \in TaskType :
       Cardinality({w \in WorkerIds : QueueOf(w) = ty /\ pc[w] \in Live})
          <= maxWorkers

C31_StopStrandsNoTask ==
    [][stopPc = "gather" /\ stopPc' = "idle"
       => \A t \in Tasks :
             /\ returned[t] >= 1 => Terminal(record'[t].status)
             /\ sub[t] = "done" /\ ~InQueue(t)'
                => record'[t].status \notin {PENDING, PROCESSING}]_vars

\* C32 (as claimed): the status of a record never goes back to PENDING from
\* PROCESSING, COMPLETED or FAILED, also when submit_task is called with a
\* task_id that was used before.
C32_ReuseKeepsStatus ==
    [][\A t \in Tasks :
          record[t].status \in {PROCESSING, COMPLETED, FAILED}
          => record'[t].status # PENDING]_vars

\* C33 (as claimed): each queue is a multiset: every successful enqueue_task
\* raises get_queue_size of its queue by one and every dequeue_task that
\* returns a payload lowers it by one, so that the size is the number of
\* enqueues minus the number of non-empty dequeues, also for a payload that
\* is enqueued again.
C33_SizeCountsEveryEnqueue ==
    [][\A q \in TaskType :
          /\ lastCall'.op = "enqueue_task" /\ lastCall'.queue = q /\ lastCall'.ok
             => GetQueueSize(q)' = GetQueueSize(q) + 1
          /\ lastCall'.op = "dequeue_task" /\ lastCall'.queue = q /\ lastCall'.ok
             => GetQueueSize(q)' = GetQueueSize(q) - 1]_vars

\* C34: once stop_workers has cancelled the workers, whichever await each of
\* them is suspended in (the dequeue and its idle wait, a status write, the
\* processor call), every worker leaves its loop and stop_workers returns.
C34_ShutdownTerminates ==
    (stopPc = "gather")
       ~> (stopPc = "idle" /\ \A w \in WorkerIds : pc[w] \notin Live)

\* stop_workers has returned after it cancelled a worker that was awaiting
\* the processor: the invocation of the task never came to an end
C34_Witness ==
    /\ Stopped /\ workers = {}
    /\ \E w \in WorkerIds : pc[w] = "exited"
    /\ \E t \in Tasks :
          /\ invoked[t].n = 1 /\ invoked[t].kind = "none"
          /\ t \notin finished
          /\ \A w \in WorkerIds : cur[w].task_id # t

\* C35 (as claimed): a task that was in its queue while a worker of its type
\* was idle is claimed within one polling interval of its enqueue.
C35_ClaimedWithinOneInterval ==
    \A t \in Tasks : idleAge[t] >= 1 => waited[t] <= IdleDelay

\* C35 (amended): a worker sleeps only after an empty dequeue, for one interval
\* of 1 s and no longer, and dequeues again when it wakes; hence a task spends
\* at most one polling interval in its queue while a worker of its type is
\* idle. The rest of its wait is for a worker that is busy with another task.
C35_IdleForOneInterval ==
    /\ \A w \in WorkerIds :
          /\ nap[w] <= IdleDelay
          /\ nap[w] > 0 => pc[w] = "poll" /\ cur[w] = NoTask
    /\ \A t \in Tasks : idleAge[t] <= IdleDelay

\* two tasks were enqueued while the one worker of their queue was asleep: it
\* claimed the first within the interval, and the second only after it had
\* processed the first
C35_Witness ==
    \E t1, t2 \in Tasks :
       /\ returned[t1] = 1 /\ returned[t2] = 1
       /\ idleAge[t1] = 1 /\ waited[t1] = IdleDelay
       /\ idleAge[t2] = 1 /\ waited[t2] > IdleDelay
       /\ t1 \in finished

\* C36 (as claimed): with the pool running and Redis answering, every task
\* whose submit_task call has returned is eventually COMPLETED or FAILED,
\* whatever its priority.
C36_SubmittedTaskEndsTerminal ==
    \A t \in Tasks : (sub[t] = "done") ~> Terminal(record[t].status)

\* C37: a task submitted with type T is only ever in T's queue, is held only
\* by a worker created for T, and is given only to T's handler; a step of a
\* submission or of a worker changes no queue but that of its own type.
C37_TaskTypesIsolated ==
    [][/\ \A t \in Tasks :
             /\ \A q \in QueueNames :
                   QueuedIn(t, q)' => q = subData'[t].task_type
             /\ \A w \in WorkerIds :
                   cur'[w].task_id = t => w[1] = subData'[t].task_type
             /\ invoked'[t].n >= 1
                => invoked'[t].handler = task_handlers[subData'[t].task_type]
             /\ sub'[t] # sub[t]
                => \A q \in QueueNames \ {subData'[t].task_type} :
                      queue'[q] = queue[q]
       /\ \A w \in WorkerIds :
             pc'[w] # pc[w] /\ pc[w] \in Live
             => \A q \in QueueNames \ {w[1]} : queue'[q] = queue[q]]_vars

\* a task of each type has been processed to the end, each by the worker and
\* the handler of its own type
C37_Witness ==
    \E t1, t2 \in finished :
       /\ subData[t1].task_type = "ocr_extraction"
       /\ subData[t2].task_type = "step_detection"
       /\ invoked[t1].handler = "ocr_service.process"
       /\ invoked[t2].handler = "step_detection.process"
       /\ record[t1].result.worker_id # record[t2].result.worker_id

\* the worker is about to record, or the store holds, the "Task timed out"
\* status of task t
TimedOutRecorded(t) ==
    \/ \E w \in WorkerIds :
          /\ pc[w] = "setTerminal"
          /\ cur[w].task_id = t
          /\ pend[w].result = ErrorData("Task timed out")
    \/ /\ record[t].status = FAILED
       /\ record[t].result = ErrorData("Task timed out")

\* C38 (as stated): when "Task timed out" is written for a task, and at any
\* later time, nothing of a processor invocation for that task is still
\* running
C38_NothingRunsAfterTimeout ==
    \A t \in Tasks :
       TimedOutRecorded(t)
       => /\ leftRunning[t] = {}
          /\ \A w \in WorkerIds : ~(pc[w] = "handler" /\ cur[w].task_id = t)

\* C38 (amended): when "Task timed out" is written for a task, and at any
\* later time, no processor coroutine for that task is still running; what
\* may still be running is a blocking call that a processor using an executor
\* thread had handed to it
C38_CoroutineEndedAfterTimeout ==
    \A t \in Tasks :
       TimedOutRecorded(t)
       => /\ "coroutine" \notin leftRunning[t]
          /\ \A w \in WorkerIds : ~(pc[w] = "handler" /\ cur[w].task_id = t)
          /\ leftRunning[t] # {} => invoked[t].handler = "ocr_service.process"

\* the store holds "Task timed out" for an OCR task whose readtext call is
\* still running in its thread, and for a step detection task
C38_Witness ==
    \E t1, t2 \in Tasks :
       /\ record[t1].result = ErrorData("Task timed out")
       /\ invoked[t1].handler = "ocr_service.process"
       /\ leftRunning[t1] = {"thread"}
       /\ record[t2].result = ErrorData("Task timed out")
       /\ invoked[t2].handler = "step_detection.process"

C40_FailedStoreCallChangesNothing ==
    [][storeCall'.flip # storeCall.flip
       => /\ ~storeCall'.raised
          /\ storeCall'.failed
             => /\ queue' = queue
                /\ record' = record
                /\ ttl' = ttl
                /\ storeCall'.op = "enqueue_task" => storeCall'.ret = FALSE
                /\ storeCall'.op = "dequeue_task" => storeCall'.ret = NoTask
                /\ storeCall'.op = "get_queue_size" => storeCall'.ret = 0
                /\ storeCall'.op = "get_task_status"
                   => storeCall'.ret = NoRecord
                /\ storeCall'.op = "set_task_status"
                   => storeCall'.ret = "None"]_vars
====
